---- MODULE Spec2Model ----
(***************************************************************************)
(* A character of REGoth-bs: CharacterAI (src/src/components/              *)
(* CharacterAI.cpp) driving the physics activation, the motion of the      *)
(* fixed update, the locomotion requests and teleport, and the name        *)
(* lookup of GameWorld (src/unnamed/part_000) teleport relies on.          *)
(*                                                                         *)
(* Units.  Lengths of the activation ranges are metres.  Time is           *)
(* milliseconds, accelerations are mm/s^2, velocities are micrometres per  *)
(* second (mm/s^2 * ms), displacements handed to the character controller  *)
(* are nanometres (um/s * ms), rotations are micro-radians.  All           *)
(* arithmetic is therefore integer arithmetic: the rounding of the 32 bit  *)
(* floats of the code is not modelled.                                     *)
(*                                                                         *)
(* Animation names are sequences of tokens, so that the concatenation the  *)
(* naming scheme is built on stays a concatenation: "S_FISTRUNL" is        *)
(* <<"S_", "FIST", "RUN", "L">>, the empty name is << >>.                  *)
(***************************************************************************)
EXTENDS Integers, Sequences, FiniteSets, TLC

VARIABLES
  mIsPhysicsActive,          \* CharacterAI::mIsPhysicsActive
  mWalkMode,                 \* CharacterAI::mWalkMode
  mWeaponMode,               \* CharacterAI::mWeaponMode
  mTurnDirection,            \* CharacterAI::mTurnDirection
  mIsInAir,                  \* CharacterAI::mIsInAir
  mIsStandingOnSolidGround,  \* CharacterAI::mIsStandingOnSolidGround
  mFallingVelocity,          \* CharacterAI::mFallingVelocity, um/s
  soPosition,                \* SO()->getTransform().pos()
  soForward,                 \* forward vector given by the last setForward
  soYaw,                     \* rotation about UNIT_Y applied since, urad
  hasVisual,                 \* mVisual->hasVisual()
  clips,                     \* the animation clips of the visual (names)
  playing,                   \* mVisual->getPlayingAnimationName()
  sceneObjects,              \* the scene objects that are not destroyed
  mSceneObjectsByNameCached, \* GameWorld::mSceneObjectsByNameCached
  ev                         \* the last operation: what was asked, what it
                             \* answered and the state it started from

vars ==
  << mIsPhysicsActive, mWalkMode, mWeaponMode, mTurnDirection, mIsInAir,
     mIsStandingOnSolidGround, mFallingVelocity, soPosition, soForward, soYaw,
     hasVisual, clips, playing, sceneObjects, mSceneObjectsByNameCached, ev >>

charVars ==
  << mIsPhysicsActive, mWalkMode, mWeaponMode, mTurnDirection, mIsInAir,
     mIsStandingOnSolidGround, mFallingVelocity >>

transformVars == << soPosition, soForward, soYaw >>

visualVars == << hasVisual, clips, playing >>

worldVars == << sceneObjects, mSceneObjectsByNameCached >>

----------------------------------------------------------------------------
(* Bounds of the model *)

\* fixedUpdate is not taken once the character would have fallen for more
\* than MaxFallTicks ticks in a row
MaxFallTicks == 3

\* fixedUpdate is not taken once the character would have turned more than
\* MaxTurnTicks ticks further to one side than to the other
MaxTurnTicks == 1

\* the character's x coordinate stays within 0 .. MaxCoord metres
MaxCoord == 1

----------------------------------------------------------------------------
(* Constants of CharacterAI.cpp *)

\* TURN_SPEED_NORMAL = 0.05f, in urad
TURN_SPEED_NORMAL == 50000

\* TURN_SPEED_MULTIPLICATOR_WITH_WEAPON = 2.0f
TURN_SPEED_MULTIPLICATOR_WITH_WEAPON == 2

\* DEACTIVATE_PHYSICS_RANGE_METERS = 45.0
DEACTIVATE_PHYSICS_RANGE_METERS == 45

\* ACTIVATE_PHYSICS_RANGE_METERS = 40.0
ACTIVATE_PHYSICS_RANGE_METERS == 40

\* FALLING_ACCELERATION_Y = -9.81f, in mm/s^2
FALLING_ACCELERATION_Y == -9810

\* DOWNWARDS_VELOCITY_WHILE_WALKING = -10.0f, in um/s (mm/s * 1000)
DOWNWARDS_VELOCITY_WHILE_WALKING == -10000000

\* bs::gTime().getFixedFrameDelta(), in ms
FixedFrameDelta == 20

----------------------------------------------------------------------------
(* Vectors: bs::Vector3 as <<x, y, z>> *)

ZERO == << 0, 0, 0 >>

Add(a, b) == << a[1] + b[1], a[2] + b[2], a[3] + b[3] >>

Sub(a, b) == << a[1] - b[1], a[2] - b[2], a[3] - b[3] >>

Neg(a) == << 0 - a[1], 0 - a[2], 0 - a[3] >>

Dot(a, b) == a[1] * b[1] + a[2] * b[2] + a[3] * b[3]

Cross(a, b) ==
  << a[2] * b[3] - a[3] * b[2], a[3] * b[1] - a[1] * b[3],
     a[1] * b[2] - a[2] * b[1] >>

squaredLength(a) == Dot(a, a)

squaredDistance(a, b) == squaredLength(Sub(a, b))

Sign(n) == IF n > 0 THEN 1 ELSE IF n < 0 THEN -1 ELSE 0

\* The length of a unit vector: directions are written in fifths, so that
\* the tilted directions <<3, 4, 0>> / 5 and <<4, 0, 3>> / 5 are exact.
UnitLength == 5

UnitComponents == { -5, -4, -3, 0, 3, 4, 5 }

UnitVectors ==
  { v \in UnitComponents \X UnitComponents \X UnitComponents :
      squaredLength(v) = UnitLength * UnitLength }

\* Vector3::normalize: the vector of length one with the direction of v; a
\* vector that is (nearly) zero is left as it is.
Normalize(v) ==
  IF v = ZERO THEN v
  ELSE CHOOSE u \in UnitVectors : Cross(u, v) = ZERO /\ Dot(u, v) > 0

\* the forward vector taken as it is, y kept
FlattenNot(v) == v

\* forwardCenterd.y = 0
Flatten(v) == << v[1], 0, v[3] >>

----------------------------------------------------------------------------
(* Rotated vectors.  The rotation of the scene object is the look rotation *)
(* of soForward followed by soYaw about UNIT_Y; soForward is horizontal,   *)
(* so the whole rotation is one about UNIT_Y.  A rotated vector is kept as *)
(* the pair of the rotation and the vector it was applied to: its length   *)
(* and its y component are those of that vector.                           *)

\* Quaternion::rotate
rotate(rotation, v) == [rot |-> rotation, vec |-> v]

\* rootMotion *= -1.0
Negated(r) == [rot |-> r.rot, vec |-> Neg(r.vec)]

\* velocity.y += dy
AddY(r, dy) == [rot |-> r.rot, vec |-> << r.vec[1], r.vec[2] + dy, r.vec[3] >>]

\* Vector3::squaredLength of a rotated vector
rotatedSquaredLength(r) == squaredLength(r.vec)

\* bs::Vector3::ZERO, as a rotated vector
RotatedZero == [rot |-> << ZERO, 0 >>, vec |-> ZERO]

----------------------------------------------------------------------------
(* The scene: the objects teleport may name, and the camera *)

NoObject == 0

SceneObjectIds == {1, 2, 3}

\* SceneObject::getName
SceneObjectName(o) == IF o = 2 THEN "WP_B" ELSE "WP_A"

\* so->getTransform().pos()
SceneObjectPosition(o) == IF o = 1 THEN << 1, 0, 0 >> ELSE << 0, 0, o >>

\* so->getTransform().getForward(): object 1 looks up a slope, object 2
\* looks straight up, object 3 looks level
SceneObjectForward(o) ==
  IF o = 1 THEN << 3, 4, 0 >> ELSE IF o = 2 THEN << 0, 5, 0 >> ELSE << 0, 0, 5 >>

\* the names teleport is called with; no object is called WP_NONE
Names == {"WP_A", "WP_B", "WP_NONE"}

\* how far along x the main camera is from the character at a fixed
\* update, in metres: inside both ranges, on and between them, outside both
CameraOffsets ==
  { ACTIVATE_PHYSICS_RANGE_METERS - 1, ACTIVATE_PHYSICS_RANGE_METERS,
    ACTIVATE_PHYSICS_RANGE_METERS + 2, DEACTIVATE_PHYSICS_RANGE_METERS,
    DEACTIVATE_PHYSICS_RANGE_METERS + 1 }

\* the positions of the character
Positions == { << x, 0, 0 >> : x \in 0 .. MaxCoord }

\* mainCamera->getTransform().pos(), the camera being d metres away
CameraPosition(d) == Add(soPosition, << d, 0, 0 >>)

----------------------------------------------------------------------------
(* GameWorld: the lookup by name (src/unnamed/part_000) *)

\* SceneObject::findChild(name): the first child of that name
findChild(name) ==
  LET found == { o \in sceneObjects : SceneObjectName(o) = name }
  IN  IF found = {} THEN NoObject
      ELSE CHOOSE o \in found : \A p \in found : o <= p

\* findObjectByName returning the cached handle without isDestroyed()
findObjectByNameResultStale(name) ==
  LET cached == mSceneObjectsByNameCached[name]
  IN  IF cached # NoObject THEN cached ELSE findChild(name)

\* the handle findObjectByName returns, before the cache is updated
findObjectByNameResult(name) ==
  LET cached == mSceneObjectsByNameCached[name]
  IN  IF cached # NoObject /\ cached \in sceneObjects THEN cached
      ELSE findChild(name)

\* findObjectByName that never writes the cache
findObjectByNameCacheKeep(name) == mSceneObjectsByNameCached

\* the cache after findObjectByName(name)
findObjectByNameCache(name) ==
  LET cached == mSceneObjectsByNameCached[name]
      so == findChild(name)
  IN  IF cached # NoObject /\ cached \in sceneObjects
        THEN mSceneObjectsByNameCached
      ELSE IF so # NoObject
        THEN [mSceneObjectsByNameCached EXCEPT ![name] = so]
      ELSE mSceneObjectsByNameCached

\* the cache fillFindByNameCache builds from the children `present`: the
\* children are visited in order, a later child of a name replaces an
\* earlier one
fillFindByNameCache(present) ==
  [ n \in Names |->
      LET named == { o \in present : SceneObjectName(o) = n }
      IN  IF named = {} THEN NoObject
          ELSE CHOOSE o \in named : \A p \in named : p <= o ]

----------------------------------------------------------------------------
(* Animation names (animation/StateNaming.hpp) *)

WalkModes == {"Run", "Walk", "Sneak"}

WeaponModes == {"None", "Fist"}

TurnDirections == {"None", "Left", "Right"}

NoAnimation == << >>

\* the tag of a weapon mode in an animation name
WeaponTag(weapon) == IF weapon = "Fist" THEN << "FIST" >> ELSE << >>

\* the tag of a walk mode in an animation name
WalkTag(walk) ==
  IF walk = "Run" THEN << "RUN" >>
  ELSE IF walk = "Walk" THEN << "WALK" >>
  ELSE << "SNEAK" >>

\* AnimationState::constructStateAnimationName(weapon, walk, state)
constructStateAnimationName(weapon, walk, state) ==
  << "S_" >> \o WeaponTag(weapon) \o WalkTag(walk) \o state

\* AnimationState::getStateName(animation): the state a state animation
\* "S_<state>" is named after; empty for every other name
getStateName(anim) ==
  IF anim # NoAnimation /\ Head(anim) = "S_" THEN Tail(anim) ELSE << >>

\* the name of the clip that leads from one state to another
constructTransitionAnimationName(stateFrom, stateTo) ==
  << "T_" >> \o stateFrom \o << "_2_" >> \o stateTo

S_STAND == << "S_", "STAND" >>

S_JUMP == << "S_", "JUMP" >>

T_JUMPB == << "T_", "JUMPB" >>

T_STRAFE(walk, side) == << "T_" >> \o WalkTag(walk) \o << side >>

\* the states a character stands or moves in, by substate
SubStates == { << >>, << "L" >>, << "BL" >> }

\* the idle animations: the state animations with the empty substate
IdleAnimations ==
  { constructStateAnimationName(w, m, << >>) : w \in WeaponModes, m \in WalkModes }

\* the animations during which the animation owns the vertical motion
FlyingAnimations ==
  { S_JUMP, constructTransitionAnimationName(<< "STAND" >>, << "JUMP" >>) }

\* the state animations that do not report themselves interruptable
UninterruptableAnimations == { S_JUMP }

----------------------------------------------------------------------------
(* VisualCharacter (components/VisualCharacter.hpp).  A clip is known by   *)
(* its name: findAnimationClip(name) is the name if the visual has such a  *)
(* clip and NoClip otherwise.                                              *)

NoClip == << "<null>" >>

\* VisualCharacter::findAnimationClip
findAnimationClip(name) ==
  IF hasVisual /\ name \in clips THEN name ELSE NoClip

\* VisualCharacter::findAnimationToTransitionTo(from, to)
findAnimationToTransitionFromTo(from, to) ==
  LET stateFrom == getStateName(from)
      stateTo   == getStateName(to)
  IN  IF stateTo = << >> THEN to
      ELSE IF stateFrom = << >> THEN to
      ELSE IF stateFrom = stateTo THEN to
      ELSE constructTransitionAnimationName(stateFrom, stateTo)

\* VisualCharacter::findAnimationToTransitionTo(to), from what is playing
findAnimationToTransitionTo(to) == findAnimationToTransitionFromTo(playing, to)

\* VisualCharacter::isPlayingAnimationInterruptable
isPlayingAnimationInterruptable == playing \notin UninterruptableAnimations

\* VisualCharacter::isPlayingIdleAnimation
isPlayingIdleAnimation == playing \in IdleAnimations

\* VisualCharacter::isPlayingFlyingAnimation
isPlayingFlyingAnimation == playing \in FlyingAnimations

\* the displacements resolveFrameRootMotion reports, in nm: none, a step
\* forward (forward is -z)
RootMotions == { ZERO, << 0, 0, -30000 >> }

----------------------------------------------------------------------------
(* CharacterAI: the physics activation (CharacterAI.cpp 66-123) *)

\* shouldDisablePhysics with the range of shouldEnablePhysics: no dead band
shouldDisablePhysicsOneRange(d) ==
  LET maxRangeSq == ACTIVATE_PHYSICS_RANGE_METERS * ACTIVATE_PHYSICS_RANGE_METERS
  IN  squaredDistance(CameraPosition(d), soPosition) > maxRangeSq

\* CharacterAI::shouldDisablePhysics, the camera being d metres away
shouldDisablePhysics(d) ==
  LET maxRangeSq == DEACTIVATE_PHYSICS_RANGE_METERS * DEACTIVATE_PHYSICS_RANGE_METERS
  IN  squaredDistance(CameraPosition(d), soPosition) > maxRangeSq

\* shouldEnablePhysics with <= for <
shouldEnablePhysicsInclusive(d) ==
  LET minRangeSq == ACTIVATE_PHYSICS_RANGE_METERS * ACTIVATE_PHYSICS_RANGE_METERS
  IN  squaredDistance(CameraPosition(d), soPosition) <= minRangeSq

\* CharacterAI::shouldEnablePhysics, the camera being d metres away
shouldEnablePhysics(d) ==
  LET minRangeSq == ACTIVATE_PHYSICS_RANGE_METERS * ACTIVATE_PHYSICS_RANGE_METERS
  IN  squaredDistance(CameraPosition(d), soPosition) < minRangeSq

\* CharacterAI::handlePhysicsActivation: the value of mIsPhysicsActive after it
handlePhysicsActivation(d) ==
  IF mIsPhysicsActive
    THEN (IF shouldDisablePhysics(d) THEN FALSE ELSE mIsPhysicsActive)
    ELSE (IF shouldEnablePhysics(d) THEN TRUE ELSE mIsPhysicsActive)

\* the fixed update testing the flag before handlePhysicsActivation ran
isActiveBeforeGate(d) == mIsPhysicsActive

\* the flag the fixed update tests after the gate (CharacterAI.cpp 353-358):
\* false ends the tick there
isActiveAfterGate(d) == handlePhysicsActivation(d)

----------------------------------------------------------------------------
(* CharacterAI: the motion of a fixed update (CharacterAI.cpp 351-463) *)

\* the change of mFallingVelocity in one tick of free fall, in um/s
GravityStep == FALLING_ACCELERATION_Y * FixedFrameDelta

\* CharacterAI::isTurningAllowed
isTurningAllowed == TRUE

\* CharacterAI::handleTurning: the rotation about UNIT_Y after it, in urad
handleTurning ==
  LET frameTurn ==
        IF mTurnDirection = "Left" THEN 0 - TURN_SPEED_NORMAL
        ELSE IF mTurnDirection = "Right" THEN TURN_SPEED_NORMAL
        ELSE 0
      fabs == IF frameTurn < 0 THEN 0 - frameTurn ELSE frameTurn
  IN  IF fabs > 100 THEN soYaw + frameTurn ELSE soYaw

\* handleFallingAndFlying with the acceleration pointing up
handleFallingAndFlyingRising ==
  IF isPlayingFlyingAnimation
    THEN [inAir |-> TRUE, fall |-> 0]
  ELSE IF ~mIsInAir
    THEN [inAir |-> mIsInAir, fall |-> 0]
  ELSE [inAir |-> mIsInAir, fall |-> mFallingVelocity - GravityStep]

\* handleFallingAndFlying without the frame delta in the integration
handleFallingAndFlyingNoDelta ==
  IF isPlayingFlyingAnimation
    THEN [inAir |-> TRUE, fall |-> 0]
  ELSE IF ~mIsInAir
    THEN [inAir |-> mIsInAir, fall |-> 0]
  ELSE [inAir |-> mIsInAir, fall |-> mFallingVelocity + FALLING_ACCELERATION_Y]

\* handleFallingAndFlying that keeps the fall velocity of a character on
\* the ground
handleFallingAndFlyingNoReset ==
  IF isPlayingFlyingAnimation
    THEN [inAir |-> TRUE, fall |-> 0]
  ELSE IF ~mIsInAir
    THEN [inAir |-> mIsInAir, fall |-> mFallingVelocity]
  ELSE [inAir |-> mIsInAir, fall |-> mFallingVelocity + GravityStep]

\* CharacterAI::handleFallingAndFlying: mIsInAir and mFallingVelocity after it
handleFallingAndFlying ==
  IF isPlayingFlyingAnimation
    THEN [inAir |-> TRUE, fall |-> 0]
  ELSE IF ~mIsInAir
    THEN [inAir |-> mIsInAir, fall |-> 0]
  ELSE [inAir |-> mIsInAir, fall |-> mFallingVelocity + GravityStep]

\* the root motion of the tick (CharacterAI.cpp 367-379), the animation
\* reporting rm and the scene object being turned by yaw
frameRootMotion(rm, yaw) ==
  IF ~isPlayingIdleAnimation
    THEN Negated(rotate(<< soForward, yaw >>, rm))
    ELSE RotatedZero

\* needsToUpdatePhysics without the test of the solid ground
needsToUpdatePhysicsNoGround(inAir, rootMotion) ==
  IF inAir THEN TRUE
  ELSE IF rotatedSquaredLength(rootMotion) > 0 THEN TRUE
  ELSE FALSE

\* needsToUpdatePhysics that asks for a move only in the air
needsToUpdatePhysicsOnlyInAir(inAir, rootMotion) == inAir

\* CharacterAI::needsToUpdatePhysics, mIsInAir being inAir
needsToUpdatePhysics(inAir, rootMotion) ==
  IF inAir THEN TRUE
  ELSE IF ~mIsStandingOnSolidGround THEN TRUE
  ELSE IF rotatedSquaredLength(rootMotion) > 0 THEN TRUE
  ELSE FALSE

\* the velocity handed to the character controller (CharacterAI.cpp 383-395)
moveVelocity(inAir, fall, rootMotion) ==
  IF inAir
    THEN AddY(rootMotion, fall * FixedFrameDelta)
    ELSE AddY(rootMotion, DOWNWARDS_VELOCITY_WHILE_WALKING * FixedFrameDelta)

\* bs::CCharacterController::move: where the controller may leave the
\* character; it stays where it is when asked to move by nothing
MoveOutcomes(velocity) ==
  IF velocity.vec = ZERO THEN { soPosition }
  ELSE { soPosition } \cup
       { p \in Positions :
           /\ p[2] = soPosition[2] /\ p[3] = soPosition[3]
           /\ p[1] - soPosition[1] \in {-1, 1} }

----------------------------------------------------------------------------
(* CharacterAI: the locomotion requests (CharacterAI.cpp 125-313, 531-586). *)
(* A request answers with [ok, playing, ...]: what it returns and the       *)
(* animation that plays after it.                                           *)

\* isStanding that holds in every state an animation decodes to
isStandingAnyState == getStateName(playing) # << >>

\* CharacterAI::isStanding
isStanding ==
  LET currentState == getStateName(playing)
  IN  IF currentState = << "RUN" >> THEN TRUE
      ELSE IF currentState = << "WALK" >> THEN TRUE
      ELSE FALSE

\* isStateSwitchAllowed without the test of the decoded state
isStateSwitchAllowedNoDecode ==
  IF playing = NoAnimation THEN TRUE
  ELSE IF ~isPlayingAnimationInterruptable THEN FALSE
  ELSE TRUE

\* CharacterAI::isStateSwitchAllowed
isStateSwitchAllowed ==
  IF playing = NoAnimation THEN TRUE
  ELSE IF getStateName(playing) = << >> THEN FALSE
  ELSE IF ~isPlayingAnimationInterruptable THEN FALSE
  ELSE TRUE

\* the clip tryPlayTransitionAnimationTo(anim) settles on (CharacterAI.cpp
\* 240-258): the transition from what is playing, or else, standing, the
\* transition from S_STAND
resolveTransitionClip(anim) ==
  LET clip == findAnimationClip(findAnimationToTransitionTo(anim))
  IN  IF clip = NoClip /\ isStanding
        THEN findAnimationClip(findAnimationToTransitionFromTo(S_STAND, anim))
        ELSE clip

\* CharacterAI::tryPlayTransitionAnimationTo
tryPlayTransitionAnimationTo(anim) ==
  LET clipPlayingNow == findAnimationClip(playing)
      clip           == findAnimationClip(findAnimationToTransitionTo(anim))
      resolved       == resolveTransitionClip(anim)
  IN  IF ~hasVisual THEN [ok |-> FALSE, playing |-> playing]
      ELSE IF clip = clipPlayingNow THEN [ok |-> TRUE, playing |-> playing]
      ELSE IF resolved = NoClip THEN [ok |-> FALSE, playing |-> playing]
      ELSE [ok |-> TRUE, playing |-> resolved]

\* CharacterAI::tryTransitionToState
tryTransitionToState(state) ==
  IF ~isStateSwitchAllowed THEN [ok |-> FALSE, playing |-> playing]
  ELSE tryPlayTransitionAnimationTo(
         constructStateAnimationName(mWeaponMode, mWalkMode, state))

\* CharacterAI::doesStateExist
doesStateExist(state) ==
  findAnimationClip(constructStateAnimationName(mWeaponMode, mWalkMode, state)) # NoClip

\* CharacterAI::goForward
goForward == tryTransitionToState(<< "L" >>)

\* goBackward whose fallback does not ask isStateSwitchAllowed
goBackwardNoGate ==
  IF doesStateExist(<< "BL" >>) THEN tryTransitionToState(<< "BL" >>)
  ELSE tryPlayTransitionAnimationTo(T_JUMPB)

\* CharacterAI::goBackward
goBackward ==
  IF doesStateExist(<< "BL" >>) THEN tryTransitionToState(<< "BL" >>)
  ELSE IF ~isStateSwitchAllowed THEN [ok |-> FALSE, playing |-> playing]
  ELSE tryPlayTransitionAnimationTo(T_JUMPB)

\* CharacterAI::strafeLeft and CharacterAI::strafeRight, by side
strafe(side) ==
  IF ~isStateSwitchAllowed THEN [ok |-> FALSE, playing |-> playing]
  ELSE tryPlayTransitionAnimationTo(T_STRAFE(mWalkMode, side))

\* stopMoving without the S_STAND fallback
stopMovingNoFallback == tryTransitionToState(<< >>)

\* CharacterAI::stopMoving
stopMoving ==
  LET first == tryTransitionToState(<< >>)
  IN  IF first.ok THEN first ELSE tryPlayTransitionAnimationTo(S_STAND)

\* jump that does not ask whether the character is in the air
jumpInAir ==
  IF ~isStateSwitchAllowed THEN [ok |-> FALSE, playing |-> playing]
  ELSE tryPlayTransitionAnimationTo(S_JUMP)

\* CharacterAI::jump
jump ==
  IF ~isStateSwitchAllowed THEN [ok |-> FALSE, playing |-> playing]
  ELSE IF mIsInAir THEN [ok |-> FALSE, playing |-> playing]
  ELSE tryPlayTransitionAnimationTo(S_JUMP)

\* changeWalkMode that sets the walk mode whatever the answer
changeWalkModeAlwaysCommit(walkMode) ==
  LET wasAllowed ==
        tryPlayTransitionAnimationTo(
          constructStateAnimationName(mWeaponMode, walkMode, << >>))
  IN  [ok |-> wasAllowed.ok, playing |-> wasAllowed.playing, walk |-> walkMode]

\* CharacterAI::changeWalkMode: also the walk mode after it
changeWalkMode(walkMode) ==
  LET wasAllowed ==
        tryPlayTransitionAnimationTo(
          constructStateAnimationName(mWeaponMode, walkMode, << >>))
  IN  [ok |-> wasAllowed.ok, playing |-> wasAllowed.playing,
       walk |-> IF wasAllowed.ok THEN walkMode ELSE mWalkMode]

\* changeWeaponMode that commits the mode only without a visual
changeWeaponModeNoCommit(mode) ==
  LET stateTarget == constructStateAnimationName(mode, mWalkMode, << >>)
      wasAllowed  == tryPlayTransitionAnimationTo(stateTarget)
      c           == findAnimationClip(stateTarget)
  IN  IF ~hasVisual
        THEN [ok |-> TRUE, playing |-> playing, weapon |-> mode]
      ELSE IF wasAllowed.ok
        THEN [ok |-> TRUE, playing |-> wasAllowed.playing, weapon |-> mWeaponMode]
      ELSE IF c # NoClip
        THEN [ok |-> FALSE, playing |-> c, weapon |-> mode]
      ELSE [ok |-> FALSE, playing |-> playing, weapon |-> mWeaponMode]

\* changeWeaponMode that asks for the transition also without a visual
changeWeaponModeNeedsVisual(mode) ==
  LET stateTarget == constructStateAnimationName(mode, mWalkMode, << >>)
      wasAllowed  == tryPlayTransitionAnimationTo(stateTarget)
      c           == findAnimationClip(stateTarget)
  IN  IF wasAllowed.ok
        THEN [ok |-> TRUE, playing |-> wasAllowed.playing, weapon |-> mode]
      ELSE IF c # NoClip
        THEN [ok |-> FALSE, playing |-> c, weapon |-> mode]
      ELSE [ok |-> FALSE, playing |-> playing, weapon |-> mWeaponMode]

\* CharacterAI::changeWeaponMode: also the weapon mode after it
changeWeaponMode(mode) ==
  LET stateTarget == constructStateAnimationName(mode, mWalkMode, << >>)
      wasAllowed  == tryPlayTransitionAnimationTo(stateTarget)
      c           == findAnimationClip(stateTarget)
  IN  IF ~hasVisual
        THEN [ok |-> TRUE, playing |-> playing, weapon |-> mode]
      ELSE IF wasAllowed.ok
        THEN [ok |-> TRUE, playing |-> wasAllowed.playing, weapon |-> mode]
      ELSE IF c # NoClip
        THEN [ok |-> FALSE, playing |-> c, weapon |-> mode]
      ELSE [ok |-> FALSE, playing |-> playing, weapon |-> mWeaponMode]

----------------------------------------------------------------------------
(* The animation clips of the visual *)

T_RUN_2_RUNL == constructTransitionAnimationName(<< "RUN" >>, << "RUN", "L" >>)

T_RUNL_2_RUN == constructTransitionAnimationName(<< "RUN", "L" >>, << "RUN" >>)

T_STAND_2_JUMP == constructTransitionAnimationName(<< "STAND" >>, << "JUMP" >>)

\* the clips every visual of the model has
BaseClips ==
  { constructStateAnimationName("None", "Run", << >>),
    constructStateAnimationName("None", "Run", << "L" >>),
    constructStateAnimationName("None", "Walk", << >>),
    constructTransitionAnimationName(<< "RUN" >>, << "WALK" >>),
    constructTransitionAnimationName(<< "WALK" >>, << "RUN" >>),
    T_RUN_2_RUNL, T_STAND_2_JUMP, S_JUMP, T_JUMPB, T_STRAFE("Run", "STRAFEL") }

\* the clips a visual may or may not have
OptionalClips ==
  { T_RUNL_2_RUN,
    constructStateAnimationName("Fist", "Run", << >>),
    constructTransitionAnimationName(<< "RUN" >>, << "FIST", "RUN" >>),
    constructTransitionAnimationName(<< "FIST", "RUN" >>, << "RUN" >>),
    constructTransitionAnimationName(<< "RUN", "L" >>, << "STAND" >>),
    constructStateAnimationName("None", "Walk", << "BL" >>) }

\* the clips of the visual the motion is studied with
DefaultClips == BaseClips \cup { T_RUNL_2_RUN }

\* the state a transition animation "T_<from>_2_<to>" leads to
transitionTarget(anim) ==
  LET at == { i \in 1 .. Len(anim) : anim[i] = "_2_" }
  IN  IF at = {} THEN << >>
      ELSE SubSeq(anim, (CHOOSE i \in at : TRUE) + 1, Len(anim))

\* the animation that follows a clip that has played to its end: the state
\* animation a transition leads to, if the visual has it, else none
followingAnimation(anim) ==
  LET target == << "S_" >> \o transitionTarget(anim)
  IN  IF transitionTarget(anim) # << >> /\ target \in clips THEN target
      ELSE NoAnimation

\* the animations that play once: all but the looping state animations
playsOnce(anim) ==
  anim # NoAnimation /\ (getStateName(anim) = << >> \/ anim = S_JUMP)

----------------------------------------------------------------------------
(* The record of the last operation.                                       *)
(*   op     the operation                                                  *)
(*   arg    its argument: the camera distance of a fixed update and the    *)
(*          root motion it computed (before the rotation), the name of a   *)
(*          teleport, the mode of a mode change                            *)
(*   ok     what it returned (teleport: whether the name was found;        *)
(*          fixed update: whether physics is active after the gate)        *)
(*   moves  the calls of the character controller's move it made           *)
(*   before what it started from: mIsPhysicsActive for a fixed update,     *)
(*          the weapon mode for changeWeaponMode, the walk mode for        *)
(*          changeWalkMode, the playing animation for the other requests   *)
(*   round  changeWeaponMode only: the call directly follows a             *)
(*          changeWeaponMode that returned true, and asks for the mode     *)
(*          that call started from                                         *)

Event(op, arg, ok, moves, before, round) ==
  [op |-> op, arg |-> arg, ok |-> ok, moves |-> moves, before |-> before,
   round |-> round]

TickInput(d, rm) == [distance |-> d, rootMotion |-> rm]

LocomotionRequests ==
  { "goForward", "goBackward", "strafeLeft", "strafeRight", "stopMoving",
    "jump", "changeWalkMode", "changeWeaponMode" }

----------------------------------------------------------------------------
(* Actions *)

\* CharacterAI::fixedUpdate, the camera being d metres away, the animation
\* reporting the root motion rm, the character controller answering a move
\* with the collision flag down and leaving the character at newPosition.
\* An input a tick without motion work or without a move does not read is
\* fixed (rm to ZERO, down to FALSE, newPosition to the position).
FixedUpdate(d, rm, down, newPosition) ==
  LET active     == handlePhysicsActivation(d)
      yaw        == IF isTurningAllowed THEN handleTurning ELSE soYaw
      falling    == handleFallingAndFlying
      rootMotion == frameRootMotion(rm, yaw)
      update     == needsToUpdatePhysics(falling.inAir, rootMotion)
      velocity   == moveVelocity(falling.inAir, falling.fall, rootMotion)
  IN  /\ mIsPhysicsActive' = active
      /\ IF ~isActiveAfterGate(d)
           THEN /\ rm = ZERO /\ ~down /\ newPosition = soPosition
                /\ UNCHANGED << mIsInAir, mIsStandingOnSolidGround,
                                mFallingVelocity, soPosition, soYaw >>
                /\ ev' = Event("fixedUpdate", TickInput(d, ZERO), FALSE, 0,
                               mIsPhysicsActive, FALSE)
           ELSE /\ falling.fall >= MaxFallTicks * GravityStep
                /\ yaw <= MaxTurnTicks * TURN_SPEED_NORMAL
                /\ yaw >= 0 - MaxTurnTicks * TURN_SPEED_NORMAL
                /\ soYaw' = yaw
                /\ mFallingVelocity' = falling.fall
                /\ IF update
                     THEN /\ newPosition \in MoveOutcomes(velocity)
                          /\ soPosition' = newPosition
                          /\ mIsStandingOnSolidGround' = down
                          /\ mIsInAir' = ~down
                          /\ ev' = Event("fixedUpdate", TickInput(d, rootMotion.vec), TRUE, 1,
                                         mIsPhysicsActive, FALSE)
                     ELSE /\ ~down /\ newPosition = soPosition
                          /\ soPosition' = soPosition
                          /\ mIsStandingOnSolidGround' = mIsStandingOnSolidGround
                          /\ mIsInAir' = falling.inAir
                          /\ ev' = Event("fixedUpdate", TickInput(d, rootMotion.vec), TRUE, 0,
                                         mIsPhysicsActive, FALSE)
      /\ UNCHANGED << mWalkMode, mWeaponMode, mTurnDirection, soForward >>
      /\ UNCHANGED visualVars
      /\ UNCHANGED worldVars

\* turnLeft that leaves a pending turn intent in place
TurnLeftFirstWins ==
  /\ mTurnDirection' = IF mTurnDirection = "None" THEN "Left" ELSE mTurnDirection
  /\ ev' = Event("turnLeft", "Left", isTurningAllowed, 0, playing, FALSE)
  /\ UNCHANGED << mIsPhysicsActive, mWalkMode, mWeaponMode, mIsInAir,
                  mIsStandingOnSolidGround, mFallingVelocity >>
  /\ UNCHANGED << transformVars, visualVars, worldVars >>

\* CharacterAI::turnLeft
TurnLeft ==
  /\ mTurnDirection' = IF isTurningAllowed THEN "Left" ELSE mTurnDirection
  /\ ev' = Event("turnLeft", "Left", isTurningAllowed, 0, playing, FALSE)
  /\ UNCHANGED << mIsPhysicsActive, mWalkMode, mWeaponMode, mIsInAir,
                  mIsStandingOnSolidGround, mFallingVelocity >>
  /\ UNCHANGED << transformVars, visualVars, worldVars >>

\* CharacterAI::turnRight
TurnRight ==
  /\ mTurnDirection' = IF isTurningAllowed THEN "Right" ELSE mTurnDirection
  /\ ev' = Event("turnRight", "Right", isTurningAllowed, 0, playing, FALSE)
  /\ UNCHANGED << mIsPhysicsActive, mWalkMode, mWeaponMode, mIsInAir,
                  mIsStandingOnSolidGround, mFallingVelocity >>
  /\ UNCHANGED << transformVars, visualVars, worldVars >>

\* CharacterAI::stopTurning
StopTurning ==
  /\ mTurnDirection' = "None"
  /\ ev' = Event("stopTurning", "None", TRUE, 0, playing, FALSE)
  /\ UNCHANGED << mIsPhysicsActive, mWalkMode, mWeaponMode, mIsInAir,
                  mIsStandingOnSolidGround, mFallingVelocity >>
  /\ UNCHANGED << transformVars, visualVars, worldVars >>

\* CharacterAI::teleport
Teleport(waypoint) ==
  LET so             == findObjectByNameResult(waypoint)
      forwardCenterd == Normalize(Flatten(SceneObjectForward(so)))
  IN  /\ mSceneObjectsByNameCached' = findObjectByNameCache(waypoint)
      /\ IF so = NoObject
           THEN UNCHANGED transformVars
           ELSE /\ soPosition' = SceneObjectPosition(so)
                   \* SceneObject::setForward leaves the rotation as it is
                   \* when it is given the zero vector
                /\ soForward' = IF forwardCenterd = ZERO THEN soForward
                                ELSE forwardCenterd
                /\ soYaw' = IF forwardCenterd = ZERO THEN soYaw ELSE 0
      /\ ev' = Event("teleport", waypoint, so # NoObject, 0, playing, FALSE)
      /\ UNCHANGED << charVars, visualVars, sceneObjects >>

\* the direction has a vector of length one among UnitVectors
HasUnitVector(v) == \E u \in UnitVectors : Cross(u, v) = ZERO /\ Dot(u, v) > 0

\* CharacterAI::instantTurnToPosition: SceneObject::lookAt sets the whole
\* rotation to the look rotation of the direction, and leaves it as it is
\* when the direction is the zero vector
InstantTurnToPosition(position) ==
  LET positionSameHeight == << position[1], soPosition[2], position[3] >>
      direction          == Sub(positionSameHeight, soPosition)
  IN  /\ direction = ZERO \/ HasUnitVector(direction)
      /\ soForward' = IF direction = ZERO THEN soForward ELSE Normalize(direction)
      /\ soYaw' = IF direction = ZERO THEN soYaw ELSE 0
      /\ ev' = Event("instantTurnToPosition", position, TRUE, 0, playing, FALSE)
      /\ UNCHANGED << charVars, soPosition, visualVars, worldVars >>

\* a locomotion request that answers r = [ok, playing]
Request(op, arg, r) ==
  /\ playing' = r.playing
  /\ ev' = Event(op, arg, r.ok, 0, playing, FALSE)
  /\ UNCHANGED << charVars, transformVars, hasVisual, clips, worldVars >>

GoForward == Request("goForward", "L", goForward)

GoBackward == Request("goBackward", "BL", goBackward)

StrafeLeft == Request("strafeLeft", "STRAFEL", strafe("STRAFEL"))

StrafeRight == Request("strafeRight", "STRAFER", strafe("STRAFER"))

StopMoving == Request("stopMoving", "", stopMoving)

Jump == Request("jump", "JUMP", jump)

\* CharacterAI::isStateSwitchAllowed, called for its answer
IsStateSwitchAllowed ==
  /\ ev' = Event("isStateSwitchAllowed", "", isStateSwitchAllowed, 0, playing, FALSE)
  /\ UNCHANGED << charVars, transformVars, visualVars, worldVars >>

\* CharacterAI::changeWalkMode
ChangeWalkMode(walkMode) ==
  LET r == changeWalkMode(walkMode)
  IN  /\ playing' = r.playing
      /\ mWalkMode' = r.walk
      /\ ev' = Event("changeWalkMode", walkMode, r.ok, 0, mWalkMode, FALSE)
      /\ UNCHANGED << mIsPhysicsActive, mWeaponMode, mTurnDirection, mIsInAir,
                      mIsStandingOnSolidGround, mFallingVelocity >>
      /\ UNCHANGED << transformVars, hasVisual, clips, worldVars >>

\* CharacterAI::changeWeaponMode
ChangeWeaponMode(mode) ==
  LET r == changeWeaponMode(mode)
  IN  /\ playing' = r.playing
      /\ mWeaponMode' = r.weapon
      /\ ev' = Event("changeWeaponMode", mode, r.ok, 0, mWeaponMode,
                     ev.op = "changeWeaponMode" /\ ev.ok /\ mode = ev.before)
      /\ UNCHANGED << mIsPhysicsActive, mWalkMode, mTurnDirection, mIsInAir,
                      mIsStandingOnSolidGround, mFallingVelocity >>
      /\ UNCHANGED << transformVars, hasVisual, clips, worldVars >>

\* the visual: the playing clip has played to its end
AnimationFinished ==
  /\ hasVisual
  /\ playsOnce(playing)
  /\ playing' = followingAnimation(playing)
  /\ ev' = Event("animationFinished", "", TRUE, 0, playing, FALSE)
  /\ UNCHANGED << charVars, transformVars, hasVisual, clips, worldVars >>

\* the visual is assigned to the character (MDL_SetVisual)
SetVisual ==
  /\ ~hasVisual
  /\ hasVisual' = TRUE
  /\ ev' = Event("setVisual", "", TRUE, 0, playing, FALSE)
  /\ UNCHANGED << charVars, transformVars, clips, playing, worldVars >>

\* a scene object of the world is destroyed
DestroyObject(o) ==
  /\ o \in sceneObjects
  /\ sceneObjects' = sceneObjects \ {o}
  /\ ev' = Event("destroyObject", SceneObjectName(o), TRUE, 0, playing, FALSE)
  /\ UNCHANGED << charVars, transformVars, visualVars, mSceneObjectsByNameCached >>

\* a scene object is added to the world (GameWorld::insertItem and the like)
CreateObject(o) ==
  /\ o \notin sceneObjects
  /\ \A p \in sceneObjects : p < o
  /\ sceneObjects' = sceneObjects \cup {o}
  /\ ev' = Event("createObject", SceneObjectName(o), TRUE, 0, playing, FALSE)
  /\ UNCHANGED << charVars, transformVars, visualVars, mSceneObjectsByNameCached >>

\* GameWorld::fillFindByNameCache
FillFindByNameCache ==
  /\ mSceneObjectsByNameCached' = fillFindByNameCache(sceneObjects)
  /\ ev' = Event("fillFindByNameCache", "", TRUE, 0, playing, FALSE)
  /\ UNCHANGED << charVars, transformVars, visualVars, sceneObjects >>

----------------------------------------------------------------------------
(* Specifications *)

NoEvent == Event("init", "", TRUE, 0, NoAnimation, FALSE)

\* the character after construction (CharacterAI.cpp 41-64), in a world
\* whose cache was filled when it was loaded.  Whether the character starts
\* in the air is left open.
InitCharacter ==
  /\ mIsPhysicsActive = TRUE
  /\ mWalkMode = "Run"
  /\ mWeaponMode = "None"
  /\ mTurnDirection = "None"
  /\ mIsInAir \in BOOLEAN
  /\ mIsStandingOnSolidGround \in BOOLEAN
  /\ mFallingVelocity = 0
  /\ soPosition = ZERO
  /\ soForward = << 0, 0, -5 >>
  /\ soYaw = 0
  /\ playing = NoAnimation
  /\ ev = NoEvent

InitWorld ==
  /\ sceneObjects = {1, 2}
  /\ mSceneObjectsByNameCached = fillFindByNameCache({1, 2})

\* The motion: fixed updates, turn intents, and the requests that start and
\* end moving and jumping, with the default clips.
Init ==
  /\ InitCharacter
  /\ InitWorld
  /\ hasVisual = TRUE
  /\ clips = DefaultClips

Next ==
  \/ \E d \in CameraOffsets, rm \in RootMotions, down \in BOOLEAN,
        newPosition \in Positions :
       FixedUpdate(d, rm, down, newPosition)
  \/ TurnLeft
  \/ TurnRight
  \/ StopTurning
  \/ GoForward
  \/ StopMoving
  \/ Jump
  \/ AnimationFinished

Spec == Init /\ [][Next]_vars

\* The locomotion requests, over the visuals the clips may make up, the
\* visual being there from the start or assigned later.
InitLoco ==
  /\ InitCharacter
  /\ mIsStandingOnSolidGround = ~mIsInAir
  /\ InitWorld
  /\ hasVisual \in BOOLEAN
  /\ clips \in { BaseClips \cup optional : optional \in SUBSET OptionalClips }

NextLoco ==
  \/ GoForward
  \/ GoBackward
  \/ StrafeLeft
  \/ StrafeRight
  \/ StopMoving
  \/ Jump
  \/ \E walkMode \in WalkModes : ChangeWalkMode(walkMode)
  \/ \E mode \in WeaponModes : ChangeWeaponMode(mode)
  \/ IsStateSwitchAllowed
  \/ AnimationFinished
  \/ SetVisual

SpecLoco == InitLoco /\ [][NextLoco]_vars

\* Teleport, in a world whose objects come and go, between fixed updates
\* and turn intents of a character that stands idle on the ground.
InitTeleport ==
  /\ mIsPhysicsActive = TRUE
  /\ mWalkMode = "Run"
  /\ mWeaponMode = "None"
  /\ mTurnDirection = "None"
  /\ mIsInAir = FALSE
  /\ mIsStandingOnSolidGround = TRUE
  /\ mFallingVelocity = 0
  /\ soPosition = ZERO
  /\ soForward = << 0, 0, -5 >>
  /\ soYaw = 0
  /\ playing = constructStateAnimationName("None", "Run", << >>)
  /\ ev = NoEvent
  /\ InitWorld
  /\ hasVisual = TRUE
  /\ clips = DefaultClips

NextTeleport ==
  \/ \E waypoint \in Names : Teleport(waypoint)
  \/ \E o \in SceneObjectIds : DestroyObject(o)
  \/ \E o \in SceneObjectIds : CreateObject(o)
  \/ FillFindByNameCache
  \/ \E d \in CameraOffsets, rm \in RootMotions, down \in BOOLEAN,
        newPosition \in Positions :
       FixedUpdate(d, rm, down, newPosition)
  \/ TurnLeft
  \/ TurnRight
  \/ StopTurning

SpecTeleport == InitTeleport /\ [][NextTeleport]_vars

\* the position instantTurnToPosition is called with: above the waypoint
\* WP_A, which is along x from the origin
TurnTargets == { << 1, 2, 0 >> }

\* the clips of a visual that stands, in both walk modes and with the fist
OwnershipClips ==
  { constructStateAnimationName("None", "Run", << >>),
    constructStateAnimationName("None", "Walk", << >>),
    constructStateAnimationName("Fist", "Run", << >>),
    constructTransitionAnimationName(<< "RUN" >>, << "WALK" >>),
    constructTransitionAnimationName(<< "WALK" >>, << "RUN" >>) }

\* Every operation that writes the state of the character, interleaved: the
\* fixed update, teleport, instantTurnToPosition, the turn intents and the
\* locomotion requests, for a character that starts idle in the air, whose
\* animations report no root motion and whose falls the character
\* controller answers without a displacement: teleport alone moves it.
InitOwnership ==
  /\ mIsPhysicsActive = TRUE
  /\ mWalkMode = "Run"
  /\ mWeaponMode = "None"
  /\ mTurnDirection = "None"
  /\ mIsInAir = TRUE
  /\ mIsStandingOnSolidGround = FALSE
  /\ mFallingVelocity = 0
  /\ soPosition = ZERO
  /\ soForward = << 0, 0, -5 >>
  /\ soYaw = 0
  /\ playing = constructStateAnimationName("None", "Run", << >>)
  /\ ev = NoEvent
  /\ InitWorld
  /\ hasVisual = TRUE
  /\ clips = OwnershipClips

NextOwnership ==
  \/ \E d \in { ACTIVATE_PHYSICS_RANGE_METERS, DEACTIVATE_PHYSICS_RANGE_METERS + 1 },
        down \in BOOLEAN :
       FixedUpdate(d, ZERO, down, soPosition)
  \/ \E waypoint \in { "WP_A", "WP_NONE" } : Teleport(waypoint)
  \/ \E position \in TurnTargets : InstantTurnToPosition(position)
  \/ TurnLeft
  \/ TurnRight
  \/ StopTurning
  \/ GoForward
  \/ GoBackward
  \/ StrafeLeft
  \/ StrafeRight
  \/ StopMoving
  \/ Jump
  \/ \E walkMode \in WalkModes : ChangeWalkMode(walkMode)
  \/ \E mode \in WeaponModes : ChangeWeaponMode(mode)
  \/ AnimationFinished

SpecOwnership == InitOwnership /\ [][NextOwnership]_vars

----------------------------------------------------------------------------
(* The physics activation and the motion of the fixed update, under Spec *)

IsTick == ev.op = "fixedUpdate"

InDeadBand(d) ==
  d > ACTIVATE_PHYSICS_RANGE_METERS /\ d <= DEACTIVATE_PHYSICS_RANGE_METERS

\* C1: hysteresis.  A fixed update that starts with physics active and a
\* camera distance of at most the deactivate range leaves physics active,
\* whichever side of the activate range the distance is on; one that starts
\* with physics inactive and a distance of at least the activate range
\* leaves it inactive.  Nothing but a fixed update changes the flag, so a
\* sequence of such ticks keeps the state it started in.
C1_NoFlicker ==
  [][ /\ (ev'.op = "fixedUpdate" /\ mIsPhysicsActive
            /\ ev'.arg.distance <= DEACTIVATE_PHYSICS_RANGE_METERS)
          => mIsPhysicsActive'
      /\ (ev'.op = "fixedUpdate" /\ ~mIsPhysicsActive
            /\ ev'.arg.distance >= ACTIVATE_PHYSICS_RANGE_METERS)
          => ~mIsPhysicsActive'
      /\ ev'.op # "fixedUpdate" => mIsPhysicsActive' = mIsPhysicsActive ]_vars

\* C1 happens: a tick that started active, with the camera beyond the
\* activate range and within the deactivate range, and physics is active
C1_Witness ==
  IsTick /\ ev.before /\ InDeadBand(ev.arg.distance) /\ mIsPhysicsActive

\* C2: the activation starts active; a fixed update turns active into
\* inactive exactly when the distance is greater than the deactivate range,
\* inactive into active exactly when it is less than the activate range,
\* and leaves the state as it is in every other case.
C2_ActivationMachine ==
  /\ ev.op = "init" => mIsPhysicsActive
  /\ IsTick =>
       mIsPhysicsActive =
         IF ev.before
           THEN ~(ev.arg.distance > DEACTIVATE_PHYSICS_RANGE_METERS)
           ELSE ev.arg.distance < ACTIVATE_PHYSICS_RANGE_METERS

\* C2 happens: a tick that started inactive exactly on the activate range
\* and stays inactive
C2_Witness ==
  IsTick /\ ~ev.before /\ ev.arg.distance = ACTIVATE_PHYSICS_RANGE_METERS
    /\ ~mIsPhysicsActive

\* C3: a fixed update after whose gate physics is inactive does nothing
\* else: no move, no rotation, no change of position, of the airborne and
\* grounded flags and of the falling velocity; a fixed update that switches
\* physics on does the motion work in the same tick: it turns by a pending
\* turn intent and moves a character that is airborne or not on solid ground.
C3_InactiveTickDoesNothing ==
  [][ /\ (ev'.op = "fixedUpdate" /\ ~mIsPhysicsActive')
          => /\ ev'.moves = 0
             /\ UNCHANGED << soPosition, soForward, soYaw, mIsInAir,
                             mIsStandingOnSolidGround, mFallingVelocity >>
      /\ (ev'.op = "fixedUpdate" /\ ~mIsPhysicsActive /\ mIsPhysicsActive')
          => /\ mTurnDirection # "None" => soYaw' # soYaw
             /\ (mIsInAir \/ ~mIsStandingOnSolidGround) => ev'.moves = 1 ]_vars

\* C3 happens: the tick that switched physics off, a turn intent pending
C3_Witness ==
  IsTick /\ ev.before /\ ~mIsPhysicsActive /\ mTurnDirection = "Left"

\* C4: a fixed update with physics active calls move once if, after the
\* vertical step, the character is airborne, or it does not stand on solid
\* ground, or the root motion of the tick is not zero, and does not call it
\* otherwise; grounded on solid ground, idle and without a turn intent, the
\* character is not moved and keeps its position and orientation.
C4_MoveOnlyWhenNeeded ==
  [][ (ev'.op = "fixedUpdate" /\ mIsPhysicsActive')
        => /\ ev'.moves =
                IF \/ mIsInAir \/ isPlayingFlyingAnimation
                   \/ ~mIsStandingOnSolidGround
                   \/ ev'.arg.rootMotion # ZERO
                  THEN 1 ELSE 0
           /\ isPlayingIdleAnimation => ev'.arg.rootMotion = ZERO
           /\ ev'.moves = 0 => soPosition' = soPosition
           /\ (~mIsInAir /\ mIsStandingOnSolidGround /\ isPlayingIdleAnimation
                 /\ mTurnDirection = "None")
                => /\ ev'.moves = 0
                   /\ UNCHANGED << soPosition, soForward, soYaw >> ]_vars

\* C4 happens: an active tick of an idle character on solid ground that
\* made no move
C4_Witness ==
  IsTick /\ mIsPhysicsActive /\ ev.moves = 0 /\ isPlayingIdleAnimation
    /\ mTurnDirection = "None" /\ ~mIsInAir /\ mIsStandingOnSolidGround

\* the case of C5: an active tick that starts airborne and whose move
\* reports no collision below
FreeFallTick ==
  ev'.op = "fixedUpdate" /\ mIsInAir /\ ev'.moves = 1 /\ mIsInAir'

\* C5 as claimed: every such tick adds gravityAcceleration * dt to the
\* falling velocity
C5_Original ==
  [][ FreeFallTick => mFallingVelocity' = mFallingVelocity + GravityStep ]_vars

\* C5: such a tick adds gravityAcceleration * dt to the falling velocity
\* when no flying animation plays, so n of them in a row add n times that;
\* while a flying animation plays the falling velocity is 0 after the tick.
C5_EulerStep ==
  [][ FreeFallTick =>
        mFallingVelocity' =
          IF isPlayingFlyingAnimation THEN 0
          ELSE mFallingVelocity + FALLING_ACCELERATION_Y * FixedFrameDelta ]_vars

\* C5 happens: after two such ticks in a row the falling velocity is twice
\* the step
C5_Witness ==
  IsTick /\ ev.moves = 1 /\ mIsInAir /\ ~isPlayingFlyingAnimation
    /\ mFallingVelocity = 2 * FALLING_ACCELERATION_Y * FixedFrameDelta

----------------------------------------------------------------------------
(* Teleport, under SpecTeleport *)

\* the scene object the last teleport found: findObjectByName leaves it in
\* the cache
TeleportTarget == mSceneObjectsByNameCached[ev.arg]

\* C6: teleport to a name that findObjectByName does not resolve (no scene
\* object that is not destroyed has the name, whatever the cache holds)
\* reports the miss and changes nothing of the character: position,
\* orientation, walk mode, weapon mode, turn direction, airborne state,
\* falling velocity and physics activation are as before.
C6_TeleportMissIsNoOp ==
  [][ (/\ ev'.op = "teleport"
       /\ \/ ~ev'.ok
          \/ \A o \in sceneObjects : SceneObjectName(o) # ev'.arg)
        => /\ ~ev'.ok
           /\ \A o \in sceneObjects : SceneObjectName(o) # ev'.arg
           /\ UNCHANGED << soPosition, soForward, soYaw, mWalkMode, mWeaponMode,
                           mTurnDirection, mIsInAir, mIsStandingOnSolidGround,
                           mFallingVelocity, mIsPhysicsActive >> ]_vars

\* C6 happens: a teleport to the name of a destroyed object that the cache
\* still holds misses, and the character is where a hit took it before
C6_Witness ==
  /\ ev.op = "teleport" /\ ~ev.ok /\ ev.arg = "WP_A"
  /\ mSceneObjectsByNameCached["WP_A"] = 1
  /\ soPosition = SceneObjectPosition(2)

\* C7 as claimed: after a teleport that found its object the character is
\* at the object's position and its forward vector is the object's forward
\* vector with the y component set to 0
C7_Original ==
  (ev.op = "teleport" /\ ev.ok)
    => /\ soPosition = SceneObjectPosition(TeleportTarget)
       /\ soYaw = 0
       /\ soForward = Flatten(SceneObjectForward(TeleportTarget))

\* C7: a teleport that finds its object puts the character at the object's
\* position, physics active or not.  If the object's forward vector with
\* the y component set to 0 is not the zero vector, the character's forward
\* vector becomes the vector of length one in that direction (y component
\* 0); if it is the zero vector, the orientation stays as it was.
C7_TeleportHit ==
  [][ (ev'.op = "teleport" /\ ev'.ok)
        => LET so   == mSceneObjectsByNameCached'[ev'.arg]
               flat == << SceneObjectForward(so)[1], 0, SceneObjectForward(so)[3] >>
           IN  /\ so \in sceneObjects /\ SceneObjectName(so) = ev'.arg
               /\ soPosition' = SceneObjectPosition(so)
               /\ mIsPhysicsActive' = mIsPhysicsActive
               /\ IF flat = ZERO
                    THEN UNCHANGED << soForward, soYaw >>
                    ELSE /\ soYaw' = 0
                         /\ soForward'[2] = 0
                         /\ squaredLength(soForward') = UnitLength * UnitLength
                         /\ Cross(soForward', flat) = ZERO
                         /\ Dot(soForward', flat) > 0 ]_vars

\* C7 happens: physics inactive, a teleport to the object that looks up a
\* slope has turned the character level along x
C7_Witness ==
  /\ ev.op = "teleport" /\ ev.ok /\ TeleportTarget = 1
  /\ ~mIsPhysicsActive
  /\ soPosition = SceneObjectPosition(1) /\ soForward = << 5, 0, 0 >>

----------------------------------------------------------------------------
(* The locomotion requests, under SpecLoco *)

\* C8 as claimed: a locomotion request that returns failure leaves the walk
\* mode, the weapon mode and the playing clip as they were
C8_FailureChangesNothing ==
  [][ (ev'.op \in LocomotionRequests /\ ~ev'.ok)
        => UNCHANGED << mWalkMode, mWeaponMode, playing >> ]_vars

\* the idle animation of the current weapon and walk mode
CurrentIdle == constructStateAnimationName(mWeaponMode, mWalkMode, << >>)

\* the animation is a transition into the state of the idle animation
LeadsTo(anim, idle) ==
  anim # NoAnimation /\ Head(anim) = "T_" /\ transitionTarget(anim) = getStateName(idle)

\* the case of C9: the step is a changeWeaponMode that returns true, asks
\* for the mode the previous call started from, and that call was a
\* changeWeaponMode that returned true
RoundTripStep ==
  /\ ev.op = "changeWeaponMode" /\ ev.ok
  /\ ev'.op = "changeWeaponMode" /\ ev'.ok /\ ev'.arg = ev.before

\* C9 as claimed: the round trip leaves the walk mode, restores the weapon
\* mode and ends with the idle clip of the original modes playing
C9_Original ==
  [][ RoundTripStep
        => /\ mWalkMode' = mWalkMode
           /\ mWeaponMode' = ev.before
           /\ playing' = CurrentIdle' ]_vars

\* C9: changeWeaponMode never changes the walk mode, a call that returns
\* true leaves the weapon mode it was asked for, and a round trip of two
\* calls that return true restores the weapon mode.  With a visual and
\* a clip playing, the round trip ends with the idle clip of the original
\* modes or with a transition into it playing; with no visual, or with
\* nothing playing and no clip to resolve, no clip is started.
C9_RoundTrip ==
  [][ /\ ev'.op = "changeWeaponMode" => mWalkMode' = mWalkMode
      /\ (ev'.op = "changeWeaponMode" /\ ev'.ok) => mWeaponMode' = ev'.arg
      /\ RoundTripStep
          => /\ mWeaponMode' = ev.before
             /\ \/ playing' = CurrentIdle'
                \/ LeadsTo(playing', CurrentIdle')
                \/ /\ playing' = playing
                   /\ ~hasVisual \/ playing = NoAnimation ]_vars

\* C9 happens: a round trip from no weapon to the fist and back, ending in
\* the transition into the idle clip
C9_Witness ==
  /\ ev.op = "changeWeaponMode" /\ ev.round /\ ev.ok
  /\ ev.before = "Fist" /\ mWeaponMode = "None" /\ hasVisual
  /\ LeadsTo(playing, CurrentIdle)

\* the character is in a steady locomotion state: a looping state animation
\* of the visual is playing
Steady == hasVisual /\ playing \in clips /\ ~playsOnce(playing)

\* the generic idle clip
GenericIdle == constructStateAnimationName("None", "Run", << >>)

\* C10 as claimed: stopMoving in a steady locomotion state returns true
\* whenever the generic idle clip exists
C10_Original ==
  [][ (ev'.op = "stopMoving" /\ Steady /\ GenericIdle \in clips) => ev'.ok ]_vars

\* the transition clip from the playing state to a state
TransitionFromPlaying(stateTo) ==
  constructTransitionAnimationName(getStateName(playing), stateTo)

\* C10: stopMoving in a steady locomotion state returns true when the state
\* switch is allowed and the idle clip of the current modes is playing or
\* the transition clip from the playing state into it exists, and when the
\* transition clip from the playing state to STAND exists; a call that
\* returns true leaves a clip of the visual playing, a call that returns
\* false leaves the playing clip as it was.  The idle clip alone is not
\* enough: without the idle playing, a transition into it or a transition to
\* STAND (from the playing state or, standing, from STAND), it returns false.
C10_StopMoving ==
  [][ (ev'.op = "stopMoving" /\ Steady)
        => /\ (/\ isPlayingAnimationInterruptable
               /\ \/ playing = CurrentIdle
                  \/ TransitionFromPlaying(getStateName(CurrentIdle)) \in clips)
                => /\ ev'.ok
                   /\ playing' \in
                        { CurrentIdle,
                          TransitionFromPlaying(getStateName(CurrentIdle)) }
           /\ TransitionFromPlaying(<< "STAND" >>) \in clips => ev'.ok
           /\ ev'.ok => playing' \in clips
           /\ ~ev'.ok => playing' = playing
           /\ (/\ playing # CurrentIdle
               /\ TransitionFromPlaying(getStateName(CurrentIdle)) \notin clips
               /\ TransitionFromPlaying(<< "STAND" >>) \notin clips
               /\ ~isStanding)
                => ~ev'.ok ]_vars

\* C10 happens: stopMoving while running forward, without a transition into
\* the idle clip, has settled through the transition to STAND
C10_Witness ==
  /\ ev.op = "stopMoving" /\ ev.ok
  /\ ev.before = constructStateAnimationName("None", "Run", << "L" >>)
  /\ T_RUNL_2_RUN \notin clips
  /\ playing = constructTransitionAnimationName(<< "RUN", "L" >>, << "STAND" >>)

\* the dedicated backward state animation of the current modes
BackwardState == constructStateAnimationName(mWeaponMode, mWalkMode, << "BL" >>)

\* the animation is the state animation, or a transition into its state
Attempts(anim, state) == anim = state \/ LeadsTo(anim, state)

\* C11 as claimed: goBackward without a dedicated backward clip plays the
\* back-jump clip and returns true; with the dedicated clip it goes for the
\* sustained backward state
C11_Original ==
  [][ ev'.op = "goBackward"
        => IF hasVisual /\ BackwardState \in clips
             THEN playing' = playing \/ Attempts(playing', BackwardState)
             ELSE ev'.ok /\ playing' = T_JUMPB ]_vars

\* C11: goBackward without a dedicated backward clip plays the back-jump
\* clip and returns true when the visual has that clip and the state switch
\* is allowed, and returns false and starts no clip when there is no visual
\* or the state switch is not allowed; with the dedicated clip it goes for
\* the sustained backward state and never starts the back-jump clip: it
\* returns true only if the state switch is allowed, and then the backward
\* state animation or a transition into it plays.
C11_GoBackward ==
  [][ ev'.op = "goBackward"
        => IF hasVisual /\ BackwardState \in clips
             THEN /\ playing' = playing \/ Attempts(playing', BackwardState)
                  /\ ev'.ok => /\ isStateSwitchAllowed
                               /\ Attempts(playing', BackwardState)
                  /\ ~ev'.ok => playing' = playing
             ELSE /\ (hasVisual /\ isStateSwitchAllowed /\ T_JUMPB \in clips)
                      => ev'.ok /\ playing' = T_JUMPB
                  /\ (~hasVisual \/ ~isStateSwitchAllowed)
                      => ~ev'.ok /\ playing' = playing ]_vars

\* C11 happens: goBackward while running forward, without a dedicated
\* backward clip, has started the back-jump clip
C11_Witness ==
  /\ ev.op = "goBackward" /\ ev.ok /\ hasVisual
  /\ BackwardState \notin clips
  /\ ev.before = constructStateAnimationName("None", "Run", << "L" >>)
  /\ playing = T_JUMPB

\* a clip resolves for a jump from what is playing: the jump clip itself
\* from no animation, the transition from the playing state, or, standing,
\* the transition from STAND
JumpResolves ==
  \/ playing = NoAnimation /\ S_JUMP \in clips
  \/ TransitionFromPlaying(<< "JUMP" >>) \in clips
  \/ isStanding /\ T_STAND_2_JUMP \in clips

\* C12 as claimed: jump returns false and starts no clip when the character
\* is in the air or the state switch is not allowed, and plays the jump
\* clip in every other case
C12_Original ==
  [][ ev'.op = "jump"
        => IF mIsInAir \/ ~isStateSwitchAllowed
             THEN ~ev'.ok /\ playing' = playing
             ELSE ev'.ok /\ Attempts(playing', S_JUMP) ]_vars

\* C12: jump returns false and starts no clip when the character is in the
\* air or the state switch is not allowed.  In every other case it returns
\* true with the jump clip or a transition into it started if the character
\* has a visual and such a clip resolves from what is playing, and returns
\* false and starts no clip if there is no visual, or a clip is playing and
\* none resolves.
C12_Jump ==
  [][ ev'.op = "jump"
        => IF mIsInAir \/ ~isStateSwitchAllowed
             THEN ~ev'.ok /\ playing' = playing
             ELSE /\ (hasVisual /\ JumpResolves)
                      => ev'.ok /\ Attempts(playing', S_JUMP)
                  /\ (~hasVisual \/ (playing \in clips /\ ~JumpResolves))
                      => ~ev'.ok /\ playing' = playing ]_vars

\* C12 happens: a character in the air that plays the idle clip has asked
\* to jump and was turned down
C12_Witness ==
  /\ ev.op = "jump" /\ ~ev.ok /\ mIsInAir /\ hasVisual
  /\ ev.before = GenericIdle /\ playing = GenericIdle

\* C13: isStateSwitchAllowed answers from the animation that plays when it
\* is called and from nothing else: true if none plays, false if the name
\* of the playing animation does not decode to a state, and otherwise
\* whether the playing animation is interruptable; the call changes nothing.
C13_StateSwitchGate ==
  [][ ev'.op = "isStateSwitchAllowed"
        => /\ ev'.ok =
                IF playing = NoAnimation THEN TRUE
                ELSE IF getStateName(playing) = << >> THEN FALSE
                ELSE playing \notin UninterruptableAnimations
           /\ UNCHANGED << charVars, transformVars, visualVars >> ]_vars

\* C13 happens: asked while the back-jump clip plays, whose name decodes to
\* no state, the answer was false, whatever the modes say
C13_Witness ==
  /\ ev.op = "isStateSwitchAllowed" /\ ~ev.ok
  /\ playing = T_JUMPB /\ mWalkMode = "Walk"

\* a special clip plays: one whose name does not decode to a state, or one
\* that is not interruptable
SpecialClipPlays ==
  /\ playing # NoAnimation
  /\ getStateName(playing) = << >> \/ ~isPlayingAnimationInterruptable

\* C14 as claimed: while a special clip plays, no locomotion request starts
\* a different clip
C14_SpecialClipFinishes ==
  [][ (ev'.op \in LocomotionRequests /\ SpecialClipPlays)
        => playing' = playing ]_vars

\* C15: changeWeaponMode(m) of a character without a visual returns true,
\* leaves the weapon mode m whatever it was, starts no clip and leaves the
\* walk mode as it was.
C15_WeaponModeWithoutVisual ==
  [][ (ev'.op = "changeWeaponMode" /\ ~hasVisual)
        => /\ ev'.ok
           /\ mWeaponMode' = ev'.arg
           /\ playing' = playing
           /\ mWalkMode' = mWalkMode ]_vars

\* C15 happens: a character without a visual, in fist mode, was put back
\* to no weapon
C15_Witness ==
  /\ ev.op = "changeWeaponMode" /\ ev.ok /\ ~hasVisual
  /\ ev.before = "Fist" /\ ev.arg = "None" /\ mWeaponMode = "None"
  /\ playing = NoAnimation

\* C16 as claimed: changeWalkMode(m) of a character without a visual
\* returns true and leaves the walk mode m
C16_WalkModeWithoutVisual ==
  [][ (ev'.op = "changeWalkMode" /\ ~hasVisual)
        => ev'.ok /\ mWalkMode' = ev'.arg ]_vars

\* the idle animation of a weapon mode with the current walk mode
TargetIdle(mode) == constructStateAnimationName(mode, mWalkMode, << >>)

\* C19 as claimed: changeWeaponMode(m) of a character with a visual, when
\* no transition clip to the idle animation of m resolves, plays the idle
\* clip of m with the current walk mode and leaves the weapon mode m if the
\* visual has that clip; if it has not, the call returns false, starts no
\* clip and leaves the weapon mode as it was
C19_RawTargetClip ==
  [][ (/\ ev'.op = "changeWeaponMode" /\ hasVisual
       /\ resolveTransitionClip(TargetIdle(ev'.arg)) = NoClip)
        => IF TargetIdle(ev'.arg) \in clips
             THEN playing' = TargetIdle(ev'.arg) /\ mWeaponMode' = ev'.arg
             ELSE /\ ~ev'.ok
                  /\ playing' = playing
                  /\ mWeaponMode' = mWeaponMode ]_vars

\* C20 as claimed: tryPlayTransitionAnimationTo returns true only if a clip
\* resolved for the target, and then that clip plays on return.  Seen
\* through the requests of a character with a visual, which return true
\* only if it did: after a request that returned true a clip of the visual
\* plays, and after changeWalkMode(m), which returns what it returned for
\* the idle animation of m, the clip resolved for that animation plays
C20_SuccessMeansClip ==
  [][ /\ (ev'.op \in LocomotionRequests /\ hasVisual /\ ev'.ok)
          => playing' \in clips
      /\ (ev'.op = "changeWalkMode" /\ ev'.ok)
          => /\ resolveTransitionClip(
                  constructStateAnimationName(mWeaponMode, ev'.arg, << >>)) # NoClip
             /\ playing' = resolveTransitionClip(
                  constructStateAnimationName(mWeaponMode, ev'.arg, << >>)) ]_vars

\* the animation is a transition from the STAND root
StandRooted(anim) == Len(anim) >= 2 /\ anim[1] = "T_" /\ anim[2] = "STAND"

\* the playing animation decodes to the steady RUN or the steady WALK state
DecodesToRunOrWalk == getStateName(playing) \in { << "RUN" >>, << "WALK" >> }

\* C21: a request starts a transition from the STAND root only if the
\* animation playing when it is called decodes to the state RUN or WALK;
\* and a jump whose transition from the playing state does not exist goes
\* through exactly when the playing animation decodes to RUN or WALK and
\* the transition from STAND exists: in any other state the request is not
\* retried from the STAND root.
C21_StandRootFallback ==
  [][ ev'.op \in LocomotionRequests
        => /\ (StandRooted(playing') /\ playing' # playing) => DecodesToRunOrWalk
           /\ (/\ ev'.op = "jump" /\ hasVisual /\ ~mIsInAir
               /\ isStateSwitchAllowed /\ playing # NoAnimation
               /\ TransitionFromPlaying(<< "JUMP" >>) \notin clips)
                => (ev'.ok <=> (DecodesToRunOrWalk /\ T_STAND_2_JUMP \in clips)) ]_vars

\* C21 happens: a jump asked for while running forward, with no transition
\* from that state, has failed although the transition from STAND exists
C21_Witness ==
  /\ ev.op = "jump" /\ ~ev.ok /\ hasVisual /\ ~mIsInAir
  /\ ev.before = constructStateAnimationName("None", "Run", << "L" >>)
  /\ playing = ev.before /\ T_STAND_2_JUMP \in clips

----------------------------------------------------------------------------
(* The turn intents, under Spec *)

TurnIntents == { "turnLeft", "turnRight", "stopTurning" }

\* the rotation of one tick for a turn direction, in urad
TurnOf(direction) ==
  IF direction = "Left" THEN 0 - TURN_SPEED_NORMAL
  ELSE IF direction = "Right" THEN TURN_SPEED_NORMAL
  ELSE 0

\* C17: turnLeft, turnRight and stopTurning return true in every state and
\* leave the turn direction Left, Right and None; nothing else writes the
\* turn direction, so it is that of the last intent, and a fixed update
\* with physics active rotates by it alone.
C17_TurnIntents ==
  [][ /\ ev'.op = "turnLeft" => ev'.ok /\ mTurnDirection' = "Left"
      /\ ev'.op = "turnRight" => ev'.ok /\ mTurnDirection' = "Right"
      /\ ev'.op = "stopTurning" => ev'.ok /\ mTurnDirection' = "None"
      /\ ev'.op \notin TurnIntents => mTurnDirection' = mTurnDirection
      /\ (ev'.op = "fixedUpdate" /\ mIsPhysicsActive')
          => soYaw' = soYaw + TurnOf(mTurnDirection) ]_vars

\* C17 happens: a tick with physics active has turned the character right
\* from where a tick under an earlier turnLeft had left it
C17_Witness ==
  IsTick /\ ev.ok /\ mTurnDirection = "Right" /\ soYaw = 0 /\ mIsInAir

----------------------------------------------------------------------------
(* Cancellation, under SpecTeleport *)

\* C18 as claimed: the fixed update that follows a teleport or a stopMoving
\* shows nothing of an earlier turn or move intent: it does not rotate the
\* character and the animation moves it by nothing
C18_CancelsIntents ==
  [][ (ev.op \in { "teleport", "stopMoving" } /\ ev'.op = "fixedUpdate")
        => soYaw' = soYaw /\ ev'.arg.rootMotion = ZERO ]_vars

----------------------------------------------------------------------------
(* The motion of the fixed update, continued, under Spec *)

\* turnSpeed * tickDelta, in urad: the turn speed is in urad per second and
\* the tick length in ms
TurnSpeedTimesDelta == (TURN_SPEED_NORMAL * FixedFrameDelta) \div 1000

\* C22 as claimed: a fixed update with physics active rotates the character
\* about UNIT_Y by turnSpeed * tickDelta, negative for Left and positive for
\* Right, whatever the weapon mode, and not at all for None
C22_TurnByDelta ==
  [][ (ev'.op = "fixedUpdate" /\ mIsPhysicsActive')
        => soYaw' - soYaw =
             IF mTurnDirection = "Left" THEN 0 - TurnSpeedTimesDelta
             ELSE IF mTurnDirection = "Right" THEN TurnSpeedTimesDelta
             ELSE 0 ]_vars

\* a fixed update that ran with physics active
ActiveTick == ev'.op = "fixedUpdate" /\ ev'.ok

\* C23 as claimed: between ticks a character that is not in the air has a
\* fall velocity of 0, and an active tick during which a flying animation
\* was playing leaves the fall velocity 0 and submits a move
C23_Original ==
  /\ [](~mIsInAir => mFallingVelocity = 0)
  /\ [][ (ActiveTick /\ isPlayingFlyingAnimation)
           => (mFallingVelocity' = 0 /\ ev'.moves = 1) ]_vars

\* C23: an active tick that begins with the character not in the air leaves
\* the fall velocity 0, and an active tick during which a flying animation
\* was playing leaves the fall velocity 0 and submits a move; the tick that
\* lands the character keeps the velocity of the fall until the next one
C23_FallVelocityReset ==
  [][ ActiveTick
        => /\ (~mIsInAir \/ isPlayingFlyingAnimation) => mFallingVelocity' = 0
           /\ isPlayingFlyingAnimation => ev'.moves = 1
           /\ (/\ mIsInAir /\ ~isPlayingFlyingAnimation /\ ~mIsInAir')
                => mFallingVelocity' = mFallingVelocity + GravityStep ]_vars

\* a tick has landed the character and left the velocity of its fall
C23_Witness ==
  /\ ev.op = "fixedUpdate" /\ ev.ok /\ ev.moves = 1
  /\ ~mIsInAir /\ mIsStandingOnSolidGround /\ mFallingVelocity < 0

----------------------------------------------------------------------------
(* The owners of the state, under SpecOwnership *)

TurnRequests == { "turnLeft", "turnRight", "stopTurning" }

\* C24: fixedUpdate, teleport, instantTurnToPosition and the turn operations
\* never change the walk mode or the weapon mode, and fixedUpdate never
\* changes the turn direction; the walk mode changes only in a changeWalkMode
\* that returns true; no locomotion or turn request changes mIsInAir, the
\* fall velocity, the physics activation, the position or the orientation
C24_StateOwnership ==
  [][ /\ ev'.op \in { "fixedUpdate", "teleport", "instantTurnToPosition" }
                      \cup TurnRequests
        => (mWalkMode' = mWalkMode /\ mWeaponMode' = mWeaponMode)
      /\ ev'.op = "fixedUpdate" => mTurnDirection' = mTurnDirection
      /\ mWalkMode' # mWalkMode => (ev'.op = "changeWalkMode" /\ ev'.ok)
      /\ ev'.op \in LocomotionRequests \cup TurnRequests
        => /\ mIsInAir' = mIsInAir
           /\ mFallingVelocity' = mFallingVelocity
           /\ mIsPhysicsActive' = mIsPhysicsActive
           /\ soPosition' = soPosition
           /\ soForward' = soForward /\ soYaw' = soYaw ]_vars

\* the walk mode has been changed by changeWalkMode, in the air, while a
\* turn is asked for and after a teleport or a turn to a position has set
\* the orientation
C24_Witness ==
  /\ ev.op = "changeWalkMode" /\ ev.ok /\ mWalkMode = "Walk" /\ ev.before = "Run"
  /\ mIsInAir /\ mFallingVelocity < 0 /\ mTurnDirection = "Left"
  /\ soForward # << 0, 0, -5 >> /\ soPosition # ZERO /\ ~mIsPhysicsActive

\* C26: the fall velocity is never positive, whatever the ticks, requests,
\* teleports and changes of the physics activation; an active tick that
\* begins in the air with no flying animation makes it strictly smaller,
\* and a tick with physics inactive leaves it as it is
C26_FallVelocityNeverPositive ==
  /\ [](mFallingVelocity <= 0)
  /\ [][ (ActiveTick /\ mIsInAir /\ ~isPlayingFlyingAnimation)
           => mFallingVelocity' < mFallingVelocity ]_vars
  /\ [][ (ev'.op = "fixedUpdate" /\ ~ev'.ok)
           => mFallingVelocity' = mFallingVelocity ]_vars

\* the character has fallen for two ticks, physics has been deactivated
\* and the tick has left the velocity of the fall
C26_Witness ==
  /\ ev.op = "fixedUpdate" /\ ~ev.ok /\ ~mIsPhysicsActive
  /\ mIsInAir /\ mFallingVelocity = 2 * GravityStep

----------------------------------------------------------------------------
(* The lookup by name, under SpecTeleport *)

\* the scene objects of that name that are not destroyed
Live(name) == { o \in sceneObjects : SceneObjectName(o) = name }

\* C27: findObjectByName, as teleport calls it, returns nothing or a scene
\* object that is not destroyed, whatever cache fills, creations and
\* destructions came before: a cached object that is not destroyed is the
\* answer; a cached object that was destroyed is passed over for a search
\* of the children, whose result replaces the cache entry when there is
\* one; a lookup that finds nothing leaves the cache as it is
C27_LookupNeverDestroyed ==
  [][ ev'.op = "teleport"
        => LET name   == ev'.arg
               cached == mSceneObjectsByNameCached[name]
               found  == mSceneObjectsByNameCached'[name]
           IN  /\ ev'.ok => (/\ found \in Live(name)
                             /\ soPosition' = SceneObjectPosition(found))
               /\ cached \in sceneObjects => (ev'.ok /\ found = cached)
               /\ (cached \notin sceneObjects /\ Live(name) # {})
                    => (ev'.ok /\ found = findChild(name))
               /\ (cached \notin sceneObjects /\ Live(name) = {})
                    => (/\ ~ev'.ok
                        /\ mSceneObjectsByNameCached' = mSceneObjectsByNameCached)
               /\ \A n \in Names \ {name} :
                    mSceneObjectsByNameCached'[n] = mSceneObjectsByNameCached[n]
               /\ sceneObjects' = sceneObjects ]_vars

\* the object the cache was filled with is destroyed, another of its name
\* was created, and the lookup has taken the character to that one
C27_Witness ==
  /\ ev.op = "teleport" /\ ev.ok /\ ev.arg = "WP_A"
  /\ 1 \notin sceneObjects /\ 3 \in sceneObjects
  /\ mSceneObjectsByNameCached["WP_A"] = 3
  /\ soPosition = SceneObjectPosition(3)

====
